---- MODULE Spec2Model ----
(***************************************************************************)
(* Model of the Installation reconciler of the porter operator            *)
(* (controllers/installation_controller.go): Reconcile and                *)
(* createJobForInstallation with the three configuration resolvers, run   *)
(* by overlapping workers against a cluster store of Installations,       *)
(* ConfigMaps, PersistentVolumeClaims and Jobs.                           *)
(***************************************************************************)
EXTENDS Integers, Sequences, FiniteSets, TLC

\* ------------------------------------------------------------------ bounds
\* number of overlapping Reconcile invocations the host may dispatch
NumWorkers == 2
\* Reconcile passes the host starts over a run
MaxPasses == 2
\* writes of the Installation by the external actor (revision tokens handed out)
MaxRevision == 2
\* cluster operations that fail with a transient error over a run
MaxFaults == 1
\* writes of the namespace ConfigMap by the external actor
MaxConfigWrites == 1
\* passes abandoned half way (process crash) over a run
MaxCrashes == 1

\* ------------------------------------------------------------------ universe
Workers == 1..NumWorkers

Namespaces == {"test"}

Names == {"wordpress"}

Keys == [ns : Namespaces, name : Names]

\* errors a cluster operation can return besides NotFound and AlreadyExists
FaultKinds == {"Unavailable"}

EmptyData == [k \in {} |-> ""]

\* InstallationSpec values the external actor may apply
PlainSpec ==
  [reference |-> "example.com/wordpress-bundle:v1", action |-> "install",
   porterVersion |-> "", serviceAccount |-> "",
   credentialSets |-> <<>>, parameterSets |-> <<>>, parameters |-> EmptyData,
   outputsVolumeSize |-> ""]

FullSpec ==
  [reference |-> "example.com/wordpress-bundle:v1", action |-> "status-check",
   porterVersion |-> "v1.2.3", serviceAccount |-> "installer",
   credentialSets |-> <<"c1", "c2">>, parameterSets |-> <<"p1">>,
   parameters |-> ("a" :> "1" @@ "b" :> "2"),
   outputsVolumeSize |-> "256Mi"]

BadSizeSpec ==
  [reference |-> "example.com/wordpress-bundle:v1", action |-> "upgrade",
   porterVersion |-> "canary", serviceAccount |-> "",
   credentialSets |-> <<>>, parameterSets |-> <<>>, parameters |-> EmptyData,
   outputsVolumeSize |-> "notasize"]

EmptySpec ==
  [reference |-> "", action |-> "",
   porterVersion |-> "", serviceAccount |-> "",
   credentialSets |-> <<>>, parameterSets |-> <<>>, parameters |-> EmptyData,
   outputsVolumeSize |-> ""]

InstSpecs == {PlainSpec, FullSpec, BadSizeSpec}

\* contents of the "porter" ConfigMap the external actor may write
ConfigDatas ==
  { EmptyData,
    ("porterVersion" :> "canary" @@ "serviceAccount" :> "porter-agent"
       @@ "outputsVolumeSize" :> "64Mi"),
    ("outputsVolumeSize" :> "lots") }

\* the zero value of porterv1.Installation, as left by a failed Get
NoInstallation ==
  [found |-> FALSE, ns |-> "", name |-> "", resourceVersion |-> "", spec |-> EmptySpec]

NilErr == [kind |-> "nil", wrap |-> "", ctx |-> <<>>]

FreshPass ==
  [req |-> [ns |-> "", name |-> ""], inst |-> NoInstallation, jobName |-> "",
   outputsVolumeSize |-> "128Mi", outputsReq |-> 0,
   porterVersion |-> "latest", pullPolicy |-> "", serviceAccount |-> "",
   ops |-> <<>>, outcome |-> "none", err |-> NilErr, requeue |-> FALSE]

VARIABLES
  insts,      \* Installation objects of the store, by namespace and name
  cfgs,       \* the "porter" ConfigMap of each namespace
  pvcs,       \* PersistentVolumeClaim objects of the store
  jobs,       \* Job objects of the store
  created,    \* the Create calls the store has answered with success
  rv,         \* the store's revision counter
  uid,        \* the store's object uid counter
  faults,     \* transient errors returned so far
  cfgWrites,  \* ConfigMap writes so far
  crashes,    \* abandoned passes so far
  pc,         \* position of each worker in Reconcile
  pass,       \* locals and operation log of each worker's current pass
  prev,       \* the pass each worker ran before its current one
  npass       \* passes started so far

vars == <<insts, cfgs, pvcs, jobs, created, rv, uid, faults, cfgWrites, crashes,
          pc, pass, prev, npass>>

store == <<insts, cfgs, pvcs, jobs, created, rv, uid>>

\* ------------------------------------------------------------------ helpers
\* slip: the object is looked up by its name in every namespace
ExistsAnywhere(objs, ns, name) == \E o \in objs : o.name = name

Exists(objs, ns, name) == \E o \in objs : o.ns = ns /\ o.name = name

Named(objs, ns, name) == {o \in objs : o.ns = ns /\ o.name = name}

\* errors the cluster may inject into the next operation
Faulty == IF faults < MaxFaults THEN FaultKinds ELSE {}

Charge(res) == IF res \in FaultKinds THEN faults + 1 ELSE faults

Op(verb, kind, ns, name, res) ==
  [verb |-> verb, kind |-> kind, ns |-> ns, name |-> name, res |-> res]

\* ------------------------------------------------------------------ Init
Init ==
  /\ insts = [k \in Keys |-> NoInstallation]
  /\ cfgs = [n \in Namespaces |-> [found |-> FALSE, data |-> EmptyData]]
  /\ pvcs = {}
  /\ jobs = {}
  /\ created = {}
  /\ rv = 0
  /\ uid = 0
  /\ faults = 0
  /\ cfgWrites = 0
  /\ crashes = 0
  /\ pc = [w \in Workers |-> "idle"]
  /\ pass = [w \in Workers |-> FreshPass]
  /\ prev = [w \in Workers |-> FreshPass]
  /\ npass = 0

\* ------------------------------------------------------------------ pure parts
\* slip: the separator is left out of the job name
JobNameNoSeparator(name, resourceVersion) == name \o resourceVersion

\* slip: the job is named after the Installation alone
JobNameNoRevision(name, resourceVersion) == name

\* jobName := req.Name + "-" + inst.ResourceVersion
JobName(name, resourceVersion) == name \o "-" \o resourceVersion

\* slip: only a transient error ends the pass, a missing Installation does not
InstallationGoneOnFaultOnly(res) == res \in FaultKinds

\* err != nil after the Get of the Installation: every error counts as deleted
InstallationGone(res) == res # "ok"

\* slip: the creation path is taken whether or not the job was found
JobQueryAlwaysCreate(res) ==
  CASE res = "ok" -> "create"
    [] res = "NotFound" -> "create"
    [] OTHER -> "error"

\* slip: every error of the query is taken for not-found
JobQueryCreateOnAnyError(res) ==
  CASE res = "ok" -> "idle"
    [] OTHER -> "create"

\* what Reconcile does with the answer of the Get of the job
JobQuery(res) ==
  CASE res = "ok" -> "idle"
    [] res = "NotFound" -> "create"
    [] OTHER -> "error"

\* capacity strings resource.ParseQuantity accepts, with their value in bytes
QuantityTable ==
  "128Mi" :> 134217728 @@ "64Mi" :> 67108864 @@ "256Mi" :> 268435456

\* slip: the error of the parse is dropped
ParseQuantityLenient(s) ==
  [ok |-> TRUE, value |-> IF s \in DOMAIN QuantityTable THEN QuantityTable[s] ELSE 0]

ParseQuantity(s) ==
  IF s \in DOMAIN QuantityTable
    THEN [ok |-> TRUE, value |-> QuantityTable[s]]
    ELSE [ok |-> FALSE, value |-> 0]

\* slip: the data of the ConfigMap is used whatever the Get answered
ConfigMapDataIgnoringError(res, ns) == IF res = "skip" THEN EmptyData ELSE cfgs[ns].data

\* slip: once a pass has found no ConfigMap, later passes take it for absent
ConfigMapDataCached(res, ns) ==
  IF res = "ok" /\ ~(\E w \in Workers : \E i \in DOMAIN prev[w].ops :
                       /\ prev[w].ops[i].kind = "ConfigMap" /\ prev[w].ops[i].ns = ns
                       /\ prev[w].ops[i].res = "NotFound")
    THEN cfgs[ns].data
    ELSE EmptyData

\* cfg.Data after r.Get of the "porter" ConfigMap: nil unless the Get succeeded
ConfigMapData(res, ns) == IF res = "ok" THEN cfgs[ns].data ELSE EmptyData

\* the answers a resolver's read of the ConfigMap can get; no read with an override
ConfigReads(override, ns) ==
  IF override # ""
    THEN {"skip"}
    ELSE {IF cfgs[ns].found THEN "ok" ELSE "NotFound"} \cup Faulty

OutputsVolumeSize(spec, data) ==
  IF spec.outputsVolumeSize # "" THEN spec.outputsVolumeSize
  ELSE IF "outputsVolumeSize" \in DOMAIN data THEN data["outputsVolumeSize"]
  ELSE "128Mi"

\* slip: the ConfigMap is not consulted for the version
PorterVersionNoNamespaceDefault(spec, data) ==
  IF spec.porterVersion # "" THEN spec.porterVersion ELSE "latest"

PorterVersion(spec, data) ==
  IF spec.porterVersion # "" THEN spec.porterVersion
  ELSE IF "porterVersion" \in DOMAIN data THEN data["porterVersion"]
  ELSE "latest"

\* slip: the canary tag is not taken for a floating tag
PullPolicyLatestOnly(porterVersion) ==
  IF porterVersion = "latest" THEN "Always" ELSE "IfNotPresent"

PullPolicy(porterVersion) ==
  IF porterVersion = "canary" \/ porterVersion = "latest" THEN "Always" ELSE "IfNotPresent"

ServiceAccount(spec, data) ==
  IF spec.serviceAccount # "" THEN spec.serviceAccount
  ELSE IF "serviceAccount" \in DOMAIN data THEN data["serviceAccount"]
  ELSE ""

\* manifest.IsCoreAction
CoreActions == {"install", "upgrade", "uninstall"}

\* slip: only "install" is taken for a core verb
IsCoreActionInstallOnly(action) == action = "install"

IsCoreAction(action) == action \in CoreActions

\* the orders in which a range over the Parameters map can visit its keys
ParamOrders(m) ==
  {s \in [1..Cardinality(DOMAIN m) -> DOMAIN m] : \A i, j \in DOMAIN s : i # j => s[i] # s[j]}

\* slip: the repeated flags are appended last name first
FlagsReversed(prefix, names) == [i \in DOMAIN names |-> prefix \o names[Len(names) + 1 - i]]

Flags(prefix, names) == [i \in DOMAIN names |-> prefix \o names[i]]

Args(inst, order) ==
  (IF IsCoreAction(inst.spec.action)
     THEN <<inst.spec.action>>
     ELSE <<"invoke", "--action=" \o inst.spec.action>>)
  \o <<inst.name, "--reference=" \o inst.spec.reference, "--debug", "--debug-plugins",
       "--driver=kubernetes">>
  \o Flags("-c=", inst.spec.credentialSets)
  \o Flags("-p=", inst.spec.parameterSets)
  \o [i \in DOMAIN order |->
        "--param=" \o order[i] \o "=" \o inst.spec.parameters[order[i]]]

\* slip: the volume is labelled with the marker and the job name only
PvcWithoutInstallationLabel(jobName, inst, outputsReq) ==
  [ns |-> inst.ns, name |-> jobName,
   labels |-> ("porter" :> "true" @@ "job" :> jobName),
   accessModes |-> <<"ReadWriteOnce">>, storage |-> outputsReq]

\* the PersistentVolumeClaim createJobForInstallation submits
Pvc(jobName, inst, outputsReq) ==
  [ns |-> inst.ns, name |-> jobName,
   labels |-> ("porter" :> "true" @@ "installation" :> inst.name @@ "job" :> jobName),
   accessModes |-> <<"ReadWriteOnce">>, storage |-> outputsReq]

\* the Job createJobForInstallation submits
PorterJob(jobName, inst, p, args) ==
  [ns |-> inst.ns, name |-> jobName,
   labels |-> ("porter" :> "true" @@ "installation" :> inst.name),
   completions |-> 1, backoffLimit |-> 0,
   owner |-> inst.name,
   claimName |-> Pvc(jobName, inst, p.outputsReq).name,
   image |-> "ghcr.io/getporter/porter:kubernetes-" \o p.porterVersion,
   pullPolicy |-> p.pullPolicy,
   args |-> args,
   env |-> ("KUBE_NAMESPACE" :> inst.ns @@ "IN_CLUSTER" :> "true"
            @@ "LABELS" :> ("porter=true installation=" \o inst.name)
            @@ "JOB_VOLUME_NAME" :> Pvc(jobName, inst, p.outputsReq).name
            @@ "JOB_VOLUME_PATH" :> "/porter-shared" @@ "CLEANUP_JOBS" :> "false"),
   restartPolicy |-> "Never",
   serviceAccount |-> p.serviceAccount]

\* slip: the object is applied (created or replaced) instead of created
CreateOrUpdate(objs, obj) ==
  [res |-> "ok", objs |-> (objs \ Named(objs, obj.ns, obj.name)) \cup {obj @@ ("uid" :> uid + 1)}]

\* r.Create: the store refuses a second object of the same namespace and name
Create(objs, obj) ==
  IF Exists(objs, obj.ns, obj.name)
    THEN [res |-> "AlreadyExists", objs |-> objs]
    ELSE [res |-> "ok", objs |-> objs \cup {obj @@ ("uid" :> uid + 1)}]

\* slip: the error of the Create of the volume is dropped
VolumeCreateIgnored(res) == FALSE

\* if err != nil { return err } after the Create of the volume
VolumeCreateFailed(res) == res # "ok"

\* slip: the error of the Create of the job is dropped
JobCreateErrDropped(res, inst) == NilErr

\* errors.Wrapf(err, ...) after the Create of the job: nil when err is nil
JobCreateErr(res, inst) ==
  IF res = "ok" THEN NilErr
  ELSE [kind |-> res, wrap |-> "error creating job for Installation",
        ctx |-> <<inst.ns, inst.name, inst.resourceVersion>>]

\* errors.Wrapf(err, ...) of a failed job query; porterJob is still the zero Job
JobQueryErr(res, req, porterJobName) ==
  [kind |-> res, wrap |-> "could not query for the bundle installation job",
   ctx |-> <<req.ns, porterJobName>>]

InvalidSizeErr(size) ==
  [kind |-> "InvalidQuantity", wrap |-> "invalid outputsVolumeSize", ctx |-> <<size>>]

\* the pass of worker w returns err
Return(p, err, requeue) ==
  [p EXCEPT !.outcome = "returned", !.err = err, !.requeue = requeue]

Logged(p, op) == [p EXCEPT !.ops = Append(@, op)]

LoggedRead(p, res, ns) ==
  IF res = "skip" THEN p ELSE Logged(p, Op("Get", "ConfigMap", ns, "porter", res))

\* ------------------------------------------------------------------ the host
\* the work queue hands a trigger naming the Installation k to the first free worker w
Trigger(w, k) ==
  /\ pc[w] \in {"idle", "done"}
  /\ \A v \in Workers : v < w => pc[v] \notin {"idle", "done"}
  /\ npass < MaxPasses
  /\ pc' = [pc EXCEPT ![w] = "getInst"]
  /\ prev' = [prev EXCEPT ![w] = pass[w]]
  /\ pass' = [pass EXCEPT ![w] = [FreshPass EXCEPT !.req = k, !.outcome = "running"]]
  /\ npass' = npass + 1
  /\ UNCHANGED <<store, faults, cfgWrites, crashes>>

\* the process dies, or its pass is abandoned, between two cluster operations
Crash(w) ==
  /\ pc[w] \notin {"idle", "done"}
  /\ crashes < MaxCrashes
  /\ crashes' = crashes + 1
  /\ pc' = [pc EXCEPT ![w] = "done"]
  /\ pass' = [pass EXCEPT ![w].outcome = "crashed"]
  /\ UNCHANGED <<store, faults, cfgWrites, prev, npass>>

\* ------------------------------------------------------------------ Reconcile
\* r.Get of the Installation, and the return when it fails
ReconcileGetInstallation(w) ==
  /\ pc[w] = "getInst"
  /\ \E res \in {IF insts[pass[w].req].found THEN "ok" ELSE "NotFound"} \cup Faulty :
       LET req == pass[w].req
           p == Logged(pass[w], Op("Get", "Installation", req.ns, req.name, res))
       IN /\ faults' = Charge(res)
          /\ IF InstallationGone(res)
               THEN /\ pc' = [pc EXCEPT ![w] = "done"]
                    /\ pass' = [pass EXCEPT ![w] = Return(p, NilErr, FALSE)]
               ELSE /\ pc' = [pc EXCEPT ![w] = "getJob"]
                    /\ pass' = [pass EXCEPT ![w] =
                         [p EXCEPT !.inst = insts[req],
                                   !.jobName = JobName(req.name, insts[req].resourceVersion)]]
  /\ UNCHANGED <<store, cfgWrites, crashes, prev, npass>>

\* r.Get of the job jobName, and the branch on its answer
ReconcileGetJob(w) ==
  /\ pc[w] = "getJob"
  /\ \E res \in {IF Exists(jobs, pass[w].req.ns, pass[w].jobName) THEN "ok" ELSE "NotFound"}
                  \cup Faulty :
       LET req == pass[w].req
           p == Logged(pass[w], Op("Get", "Job", req.ns, pass[w].jobName, res))
       IN /\ faults' = Charge(res)
          /\ CASE JobQuery(res) = "idle" ->
                    /\ pc' = [pc EXCEPT ![w] = "done"]
                    /\ pass' = [pass EXCEPT ![w] = Return(p, NilErr, FALSE)]
               [] JobQuery(res) = "create" ->
                    /\ pc' = [pc EXCEPT ![w] = "getSize"]
                    /\ pass' = [pass EXCEPT ![w] = p]
               [] OTHER ->
                    /\ pc' = [pc EXCEPT ![w] = "done"]
                    /\ pass' = [pass EXCEPT ![w] = Return(p, JobQueryErr(res, req, ""), FALSE)]
  /\ UNCHANGED <<store, cfgWrites, crashes, prev, npass>>

\* ------------------------------------------------------------------ createJobForInstallation
\* getOutputsVolumeSize, and the return when the size does not parse
GetOutputsVolumeSize(w) ==
  /\ pc[w] = "getSize"
  /\ \E res \in ConfigReads(pass[w].inst.spec.outputsVolumeSize, pass[w].inst.ns) :
       LET inst == pass[w].inst
           p == LoggedRead(pass[w], res, inst.ns)
           size == OutputsVolumeSize(inst.spec, ConfigMapData(res, inst.ns))
           qty == ParseQuantity(size)
       IN /\ faults' = Charge(res)
          /\ IF qty.ok
               THEN /\ pc' = [pc EXCEPT ![w] = "createPVC"]
                    /\ pass' = [pass EXCEPT ![w] =
                         [p EXCEPT !.outputsVolumeSize = size, !.outputsReq = qty.value]]
               ELSE /\ pc' = [pc EXCEPT ![w] = "done"]
                    /\ pass' = [pass EXCEPT ![w] =
                         Return([p EXCEPT !.outputsVolumeSize = size],
                                InvalidSizeErr(size), FALSE)]
  /\ UNCHANGED <<store, cfgWrites, crashes, prev, npass>>

\* r.Create of the volume, and the return when it fails
CreatePVC(w) ==
  /\ pc[w] = "createPVC"
  /\ \E f \in {"none"} \cup Faulty :
       LET inst == pass[w].inst
           pvc == Pvc(pass[w].jobName, inst, pass[w].outputsReq)
           c == IF f = "none" THEN Create(pvcs, pvc) ELSE [res |-> f, objs |-> pvcs]
           p == Logged(pass[w], Op("Create", "PersistentVolumeClaim", pvc.ns, pvc.name, c.res))
       IN /\ faults' = Charge(c.res)
          /\ pvcs' = c.objs
          /\ uid' = IF c.res = "ok" THEN uid + 1 ELSE uid
          /\ created' = IF c.res = "ok"
                          THEN created \cup {[kind |-> "PersistentVolumeClaim", ns |-> pvc.ns,
                                              name |-> pvc.name, uid |-> uid + 1]}
                          ELSE created
          /\ IF VolumeCreateFailed(c.res)
               THEN /\ pc' = [pc EXCEPT ![w] = "done"]
                    /\ pass' = [pass EXCEPT ![w] =
                         Return(p, [kind |-> c.res, wrap |-> "", ctx |-> <<>>], FALSE)]
               ELSE /\ pc' = [pc EXCEPT ![w] = "getVersion"]
                    /\ pass' = [pass EXCEPT ![w] = p]
  /\ UNCHANGED <<insts, cfgs, jobs, rv, cfgWrites, crashes, prev, npass>>

GetPorterImageVersion(w) ==
  /\ pc[w] = "getVersion"
  /\ \E res \in ConfigReads(pass[w].inst.spec.porterVersion, pass[w].inst.ns) :
       LET inst == pass[w].inst
           p == LoggedRead(pass[w], res, inst.ns)
           porterVersion == PorterVersion(inst.spec, ConfigMapData(res, inst.ns))
       IN /\ faults' = Charge(res)
          /\ pass' = [pass EXCEPT ![w] =
               [p EXCEPT !.porterVersion = porterVersion,
                         !.pullPolicy = PullPolicy(porterVersion)]]
  /\ pc' = [pc EXCEPT ![w] = "getSA"]
  /\ UNCHANGED <<store, cfgWrites, crashes, prev, npass>>

GetPorterAgentServiceAccount(w) ==
  /\ pc[w] = "getSA"
  /\ \E res \in ConfigReads(pass[w].inst.spec.serviceAccount, pass[w].inst.ns) :
       LET inst == pass[w].inst
           p == LoggedRead(pass[w], res, inst.ns)
       IN /\ faults' = Charge(res)
          /\ pass' = [pass EXCEPT ![w] =
               [p EXCEPT !.serviceAccount = ServiceAccount(inst.spec, ConfigMapData(res, inst.ns))]]
  /\ pc' = [pc EXCEPT ![w] = "createJob"]
  /\ UNCHANGED <<store, cfgWrites, crashes, prev, npass>>

\* the argument vector, r.Create of the job, and the return
CreateJob(w) ==
  /\ pc[w] = "createJob"
  /\ \E f \in {"none"} \cup Faulty, order \in ParamOrders(pass[w].inst.spec.parameters) :
       LET inst == pass[w].inst
           porterJob == PorterJob(pass[w].jobName, inst, pass[w], Args(inst, order))
           c == IF f = "none" THEN Create(jobs, porterJob) ELSE [res |-> f, objs |-> jobs]
           p == Logged(pass[w], Op("Create", "Job", porterJob.ns, porterJob.name, c.res))
       IN /\ faults' = Charge(c.res)
          /\ jobs' = c.objs
          /\ uid' = IF c.res = "ok" THEN uid + 1 ELSE uid
          /\ created' = IF c.res = "ok"
                          THEN created \cup {[kind |-> "Job", ns |-> porterJob.ns,
                                              name |-> porterJob.name, uid |-> uid + 1]}
                          ELSE created
          /\ pass' = [pass EXCEPT ![w] = Return(p, JobCreateErr(c.res, inst), FALSE)]
  /\ pc' = [pc EXCEPT ![w] = "done"]
  /\ UNCHANGED <<insts, cfgs, pvcs, rv, cfgWrites, crashes, prev, npass>>

\* ------------------------------------------------------------------ the external actor
\* kubectl apply of an Installation: the store hands out a new resourceVersion
ApplyInstallation(k, spec) ==
  /\ rv < MaxRevision
  /\ rv' = rv + 1
  /\ insts' = [insts EXCEPT ![k] =
       [found |-> TRUE, ns |-> k.ns, name |-> k.name,
        resourceVersion |-> ToString(rv + 1), spec |-> spec]]
  /\ UNCHANGED <<cfgs, pvcs, jobs, created, uid, faults, cfgWrites, crashes,
                 pc, pass, prev, npass>>

DeleteInstallation(k) ==
  /\ insts[k].found
  /\ insts' = [insts EXCEPT ![k] = NoInstallation]
  /\ UNCHANGED <<cfgs, pvcs, jobs, created, rv, uid, faults, cfgWrites, crashes,
                 pc, pass, prev, npass>>

\* the "porter" ConfigMap of a namespace is created or replaced
WriteConfigMap(ns, data) ==
  /\ cfgWrites < MaxConfigWrites
  /\ cfgWrites' = cfgWrites + 1
  /\ cfgs' = [cfgs EXCEPT ![ns] = [found |-> TRUE, data |-> data]]
  /\ UNCHANGED <<insts, pvcs, jobs, created, rv, uid, faults, crashes,
                 pc, pass, prev, npass>>

\* ------------------------------------------------------------------ specification
Step(w) ==
  \/ ReconcileGetInstallation(w)
  \/ ReconcileGetJob(w)
  \/ GetOutputsVolumeSize(w)
  \/ CreatePVC(w)
  \/ GetPorterImageVersion(w)
  \/ GetPorterAgentServiceAccount(w)
  \/ CreateJob(w)

Next ==
  \/ \E w \in Workers, k \in Keys : Trigger(w, k)
  \/ \E w \in Workers : Step(w)
  \/ \E w \in Workers : Crash(w)
  \/ \E k \in Keys, spec \in InstSpecs : ApplyInstallation(k, spec)
  \/ \E k \in Keys : DeleteInstallation(k)
  \/ \E ns \in Namespaces, data \in ConfigDatas : WriteConfigMap(ns, data)

Spec == Init /\ [][Next]_vars

\* ------------------------------------------------------------------ resolution runs
\* action names an Installation may carry
Actions == {"install", "upgrade", "uninstall", "status-check"}

\* Installations with every combination of the three overrides, and every action
ResolveSpecs ==
  {[PlainSpec EXCEPT !.outputsVolumeSize = size, !.porterVersion = version,
                     !.serviceAccount = account] :
     size \in {"", "256Mi"}, version \in {"", "v1.2.3"}, account \in {"", "installer"}}
  \cup {[PlainSpec EXCEPT !.action = action] : action \in Actions}

\* the "porter" ConfigMap: absent, or holding any subset of the three keys
ResolveConfigs ==
  {[found |-> FALSE, data |-> EmptyData]}
  \cup {[found |-> TRUE,
         data |-> [k \in keys |->
                    CASE k = "outputsVolumeSize" -> "64Mi"
                      [] k = "porterVersion" -> version
                      [] OTHER -> "porter-agent"]] :
          keys \in SUBSET {"outputsVolumeSize", "porterVersion", "serviceAccount"},
          version \in {"canary", "v0.9.0"}}

\* the Installation and the ConfigMap are in place before the first trigger
InitResolve ==
  /\ \E spec \in ResolveSpecs :
       insts = [k \in Keys |->
                 [found |-> TRUE, ns |-> k.ns, name |-> k.name,
                  resourceVersion |-> "1", spec |-> spec]]
  /\ \E cfg \in ResolveConfigs : cfgs = [n \in Namespaces |-> cfg]
  /\ pvcs = {}
  /\ jobs = {}
  /\ created = {}
  /\ rv = 1
  /\ uid = 0
  /\ faults = 0
  /\ cfgWrites = 0
  /\ crashes = 0
  /\ pc = [w \in Workers |-> "idle"]
  /\ pass = [w \in Workers |-> FreshPass]
  /\ prev = [w \in Workers |-> FreshPass]
  /\ npass = 0

NextResolve ==
  \/ \E w \in Workers, k \in Keys : Trigger(w, k)
  \/ \E w \in Workers : Step(w)

SpecResolve == InitResolve /\ [][NextResolve]_vars

\* ------------------------------------------------------------------ reading a pass
Returned(p) == p.outcome = "returned"

\* the identity <name>-<revision> of the job the pass is about
Identity(p) == p.req.name \o "-" \o p.inst.resourceVersion

\* no cluster operation of the pass returned an error; not-found on a read is no error
Clean(p) ==
  \A i \in DOMAIN p.ops :
    p.ops[i].res = "ok" \/ (p.ops[i].verb = "Get" /\ p.ops[i].res = "NotFound")

\* no cluster operation of the pass failed with a transient error
NoFault(p) == \A i \in DOMAIN p.ops : p.ops[i].res \notin FaultKinds

SizeParsed(p) == p.err.kind # "InvalidQuantity"

OpsOf(p, verb, kind) == {i \in DOMAIN p.ops : p.ops[i].verb = verb /\ p.ops[i].kind = kind}

NoCreate(p) == \A i \in DOMAIN p.ops : p.ops[i].verb # "Create"

\* the pass created the object of this kind named by its identity
CreatedOwn(p, kind) ==
  \E i \in OpsOf(p, "Create", kind) :
    p.ops[i].res = "ok" /\ p.ops[i].ns = p.req.ns /\ p.ops[i].name = Identity(p)

\* worker w ran two passes one after the other for the same Installation and revision
TwiceInSequence(w) ==
  /\ Returned(prev[w]) /\ Returned(pass[w])
  /\ prev[w].inst.found /\ pass[w].inst.found
  /\ prev[w].req = pass[w].req
  /\ prev[w].inst.resourceVersion = pass[w].inst.resourceVersion

\* ------------------------------------------------------------------ claims
\* C1: two Reconcile passes in sequence for the same Installation at the same
\* revision, in which no operation fails (every cluster operation of the first pass
\* succeeds, its volume size parses, no transient error in the second), leave exactly
\* one job and exactly one volume named <name>-<revision>; the second pass attempts
\* no create and returns success.
C1_Idempotent ==
  \A w \in Workers :
    (TwiceInSequence(w) /\ Clean(prev[w]) /\ SizeParsed(prev[w]) /\ NoFault(pass[w]))
      => /\ Cardinality(Named(jobs, pass[w].req.ns, Identity(pass[w]))) = 1
         /\ Cardinality(Named(pvcs, pass[w].req.ns, Identity(pass[w]))) = 1
         /\ NoCreate(pass[w])
         /\ pass[w].err = NilErr

C1_Witness ==
  \E w \in Workers :
    /\ TwiceInSequence(w) /\ Clean(prev[w]) /\ SizeParsed(prev[w]) /\ NoFault(pass[w])
    /\ CreatedOwn(prev[w], "Job")
    /\ Len(pass[w].ops) = 2

\* C2: however Reconcile passes overlap, the store never holds two jobs or two
\* volumes of one namespace and name, and the store answers at most one job
\* submission per identity with success over the whole run.
C2_AtMostOnce ==
  /\ \A a, b \in jobs : (a.ns = b.ns /\ a.name = b.name) => a = b
  /\ \A a, b \in pvcs : (a.ns = b.ns /\ a.name = b.name) => a = b
  /\ \A a, b \in created :
       (a.kind = "Job" /\ b.kind = "Job" /\ a.ns = b.ns /\ a.name = b.name) => a = b

C2_Witness ==
  \E v, w \in Workers :
    /\ v # w
    /\ pass[v].inst.found /\ pass[w].inst.found
    /\ pass[v].req = pass[w].req /\ Identity(pass[v]) = Identity(pass[w])
    /\ OpsOf(pass[v], "Create", "PersistentVolumeClaim") # {}
    /\ OpsOf(pass[w], "Create", "PersistentVolumeClaim") # {}
    /\ Exists(jobs, pass[v].req.ns, Identity(pass[v]))

\* C3: a pass whose create of the volume or of the job is answered "already exists"
\* returns no error.
C3_AlreadyExistsIsSuccess ==
  \A w \in Workers :
    (Returned(pass[w])
       /\ \E i \in DOMAIN pass[w].ops :
            pass[w].ops[i].verb = "Create" /\ pass[w].ops[i].res = "AlreadyExists")
      => pass[w].err = NilErr

\* C4: after a pass that created the volume <name>-<revision> and ended without
\* creating the job, a later pass at the same revision that meets no transient error
\* and a parsing size returns success and the job exists.
C4_SelfHealing ==
  \A w \in Workers :
    (/\ prev[w].outcome \in {"returned", "crashed"}
     /\ CreatedOwn(prev[w], "PersistentVolumeClaim")
     /\ ~CreatedOwn(prev[w], "Job")
     /\ Returned(pass[w]) /\ pass[w].inst.found
     /\ prev[w].req = pass[w].req
     /\ prev[w].inst.resourceVersion = pass[w].inst.resourceVersion
     /\ NoFault(pass[w]) /\ SizeParsed(pass[w]))
      => /\ pass[w].err = NilErr
         /\ Exists(jobs, pass[w].req.ns, Identity(pass[w]))

\* C5: a pass for an existing Installation that finds no job <name>-<revision>, in
\* which no cluster operation fails and the size parses, returns success having
\* created exactly one volume and exactly one job, both named <name>-<revision> in
\* the Installation's namespace.
C5_FreshCreate ==
  \A w \in Workers :
    (Returned(pass[w]) /\ pass[w].inst.found /\ Clean(pass[w]) /\ SizeParsed(pass[w])
       /\ \E i \in OpsOf(pass[w], "Get", "Job") : pass[w].ops[i].res = "NotFound")
      => /\ pass[w].err = NilErr
         /\ Cardinality(OpsOf(pass[w], "Create", "PersistentVolumeClaim")) = 1
         /\ Cardinality(OpsOf(pass[w], "Create", "Job")) = 1
         /\ CreatedOwn(pass[w], "PersistentVolumeClaim")
         /\ CreatedOwn(pass[w], "Job")
         /\ Cardinality(Named(pvcs, pass[w].req.ns, Identity(pass[w]))) = 1
         /\ Cardinality(Named(jobs, pass[w].req.ns, Identity(pass[w]))) = 1

C5_Witness ==
  \E w \in Workers :
    /\ Returned(pass[w]) /\ pass[w].inst.found /\ Clean(pass[w]) /\ SizeParsed(pass[w])
    /\ \E i \in OpsOf(pass[w], "Get", "Job") : pass[w].ops[i].res = "NotFound"
    /\ Exists(jobs, "test", "wordpress-1")

C6_State ==
  \A w \in Workers :
    (/\ Returned(prev[w]) /\ prev[w].inst.found /\ prev[w].err = NilErr
     /\ Returned(pass[w]) /\ pass[w].inst.found
     /\ prev[w].req = pass[w].req
     /\ prev[w].inst.resourceVersion # pass[w].inst.resourceVersion
     /\ Clean(pass[w]) /\ SizeParsed(pass[w]))
      => /\ Exists(jobs, pass[w].req.ns, Identity(pass[w]))
         /\ \E c \in created :
              c.kind = "Job" /\ c.ns = pass[w].req.ns /\ c.name = Identity(pass[w])
         /\ Identity(pass[w]) # Identity(prev[w])
         /\ Exists(jobs, prev[w].req.ns, Identity(prev[w]))
         /\ Exists(pvcs, prev[w].req.ns, Identity(prev[w]))

C6_Frame == (\A j \in jobs : j \in jobs') /\ (\A v \in pvcs : v \in pvcs')

\* C6: when a pass that meets no failure runs after a pass that succeeded at
\* revision r1 and the revision of the Installation has changed to r2, a job
\* <name>-r2 has been created and the job and the volume <name>-r1 still exist; no
\* step ever removes or changes a stored job or volume.
C6_RevisionIsolation == []C6_State /\ [][C6_Frame]_vars

C6_Witness ==
  \E w \in Workers :
    /\ Returned(prev[w]) /\ prev[w].inst.found /\ prev[w].err = NilErr
    /\ CreatedOwn(prev[w], "Job")
    /\ Returned(pass[w]) /\ pass[w].inst.found
    /\ prev[w].req = pass[w].req
    /\ prev[w].inst.resourceVersion # pass[w].inst.resourceVersion
    /\ Clean(pass[w]) /\ SizeParsed(pass[w])
    /\ CreatedOwn(pass[w], "Job")
    /\ Cardinality(jobs) = 2

\* C7: in every pass a create of the job comes after a successful create of the
\* volume in the same pass; a pass whose create of the volume failed has returned an
\* error and attempted no create of the job.
C7_VolumeBeforeJob ==
  \A w \in Workers : \A p \in {pass[w], prev[w]} :
    /\ \A i \in OpsOf(p, "Create", "Job") :
         \E j \in OpsOf(p, "Create", "PersistentVolumeClaim") : j < i /\ p.ops[j].res = "ok"
    /\ \A j \in OpsOf(p, "Create", "PersistentVolumeClaim") :
         p.ops[j].res # "ok"
           => /\ OpsOf(p, "Create", "Job") = {}
              /\ Returned(p) /\ p.err # NilErr

C7_Witness ==
  \E w \in Workers :
    /\ Returned(pass[w])
    /\ \E j \in OpsOf(pass[w], "Create", "PersistentVolumeClaim") : pass[w].ops[j].res # "ok"

\* C8: a pass whose load of the Installation failed with an error other than
\* not-found returns an error.
C8_LoadErrorPropagated ==
  \A w \in Workers :
    (Returned(pass[w])
       /\ \E i \in OpsOf(pass[w], "Get", "Installation") : pass[w].ops[i].res \in FaultKinds)
      => pass[w].err # NilErr

\* the load of the Installation of pass p was answered not-found
LoadNotFound(p) ==
  \E i \in OpsOf(p, "Get", "Installation") : p.ops[i].res = "NotFound"

C9_State ==
  \A w \in Workers : \A p \in {pass[w], prev[w]} :
    LoadNotFound(p)
      => Returned(p) /\ p.err = NilErr /\ ~p.requeue /\ Len(p.ops) = 1

C9_Frame ==
  \A w \in Workers :
    (pc[w] = "getInst" /\ LoadNotFound(pass[w]'))
      => UNCHANGED <<insts, cfgs, pvcs, jobs, created>>

\* C9: a pass whose load of the Installation is answered not-found returns success
\* with no requeue, its only cluster operation is that load, and the step leaves
\* every stored object as it was.
C9_NotFoundIsNoop == []C9_State /\ [][C9_Frame]_vars

C9_Witness ==
  \E w \in Workers :
    /\ LoadNotFound(pass[w]) /\ Returned(pass[w])
    /\ \E j \in jobs : j.ns = pass[w].req.ns /\ j.labels["installation"] = pass[w].req.name
    /\ \E v \in pvcs : v.ns = pass[w].req.ns /\ v.labels["installation"] = pass[w].req.name

\* the query for the job of pass p failed with an error other than not-found
JobQueryFailed(p) ==
  \E i \in OpsOf(p, "Get", "Job") : p.ops[i].res \in FaultKinds

C10_State ==
  \A w \in Workers : \A p \in {pass[w], prev[w]} :
    JobQueryFailed(p) => Returned(p) /\ p.err # NilErr /\ NoCreate(p)

C10_Frame ==
  \A w \in Workers :
    (pc[w] = "getJob" /\ JobQueryFailed(pass[w]'))
      => UNCHANGED <<pvcs, jobs, created>>

\* C10: a pass whose query for the job <name>-<revision> fails with an error other
\* than not-found returns an error, attempts no create, and leaves the stored
\* volumes and jobs as they were.
C10_QueryErrorPropagated == []C10_State /\ [][C10_Frame]_vars

C10_Witness ==
  \E w \in Workers :
    /\ JobQueryFailed(pass[w]) /\ Returned(pass[w])
    /\ pass[w].err.kind \in FaultKinds

\* the query for the job of pass p found the job
JobFound(p) == \E i \in OpsOf(p, "Get", "Job") : p.ops[i].res = "ok"

C11_State ==
  \A w \in Workers : \A p \in {pass[w], prev[w]} :
    JobFound(p)
      => /\ Returned(p) /\ p.err = NilErr
         /\ NoCreate(p)
         /\ OpsOf(p, "Get", "ConfigMap") = {}
         /\ Len(p.ops) = 2

C11_Frame ==
  \A w \in Workers :
    (pc[w] = "getJob" /\ JobFound(pass[w]'))
      => UNCHANGED <<insts, cfgs, pvcs, jobs, created>>

\* C11: a pass that finds the job <name>-<revision> returns success having issued
\* no create and no read of the namespace ConfigMap, and leaves the store as it was.
C11_FoundIsIdle == []C11_State /\ [][C11_Frame]_vars

C11_Witness ==
  \E w \in Workers :
    /\ JobFound(pass[w]) /\ Returned(pass[w])
    /\ Exists(jobs, pass[w].req.ns, Identity(pass[w]))

\* the size string does not parse as a capacity quantity
Unparsable(size) == size \notin DOMAIN QuantityTable

C12_State ==
  \A w \in Workers : \A p \in {pass[w], prev[w]} :
    Unparsable(p.outputsVolumeSize)
      => /\ Returned(p) /\ p.err.kind = "InvalidQuantity"
         /\ NoCreate(p)

C12_Frame ==
  \A w \in Workers :
    (pc[w] = "getSize" /\ Unparsable(pass[w].outputsVolumeSize'))
      => UNCHANGED <<pvcs, jobs, created>>

\* C12: a pass whose resolved volume size, from the override or from the ConfigMap,
\* does not parse returns an error, has attempted no create and leaves the stored
\* volumes and jobs as they were; so does every repeated pass.
C12_BadSizeRejected == []C12_State /\ [][C12_Frame]_vars

\* two passes in sequence at one revision both reject the size of the ConfigMap
C12_Witness ==
  \E w \in Workers :
    /\ TwiceInSequence(w)
    /\ prev[w].err.kind = "InvalidQuantity" /\ pass[w].err.kind = "InvalidQuantity"
    /\ pass[w].inst.spec.outputsVolumeSize = ""
    /\ pass[w].outputsVolumeSize = "lots"
    /\ pvcs = {} /\ jobs = {}

\* the precedence chain: override, else the key of an existing ConfigMap, else default
Precedence(override, cfg, key, default) ==
  IF override # "" THEN override
  ELSE IF cfg.found /\ key \in DOMAIN cfg.data THEN cfg.data[key]
  ELSE default

\* worker w takes the step at position at, and its read of the ConfigMap, if any,
\* is not answered with a transient error
Resolves(w, at) ==
  /\ pc[w] = at /\ pc'[w] # at
  /\ pass'[w].outcome # "crashed"
  /\ \A i \in DOMAIN pass'[w].ops :
       i > Len(pass[w].ops) => pass'[w].ops[i].res \notin FaultKinds

C13_Frame ==
  \A w \in Workers :
    LET spec == pass[w].inst.spec
        cfg == cfgs[pass[w].inst.ns]
    IN /\ Resolves(w, "getSize")
            => pass'[w].outputsVolumeSize =
                 Precedence(spec.outputsVolumeSize, cfg, "outputsVolumeSize", "128Mi")
       /\ Resolves(w, "getVersion")
            => pass'[w].porterVersion =
                 Precedence(spec.porterVersion, cfg, "porterVersion", "latest")
       /\ Resolves(w, "getSA")
            => pass'[w].serviceAccount =
                 Precedence(spec.serviceAccount, cfg, "serviceAccount", "")

\* C13: each of the three resolutions whose read of the ConfigMap does not fail
\* yields the non-empty override, else the value of the key in the existing
\* ConfigMap, else the hard-coded default ("128Mi", "latest", empty).
C13_Precedence == [][C13_Frame]_vars

\* one pass has resolved a size from the override, a version from the ConfigMap and
\* a service account from the default
C13_Witness ==
  \E w \in Workers :
    LET spec == pass[w].inst.spec
        cfg == cfgs[pass[w].inst.ns]
    IN /\ pc[w] = "createJob"
       /\ spec.outputsVolumeSize = "256Mi" /\ "outputsVolumeSize" \in DOMAIN cfg.data
       /\ pass[w].outputsVolumeSize = "256Mi"
       /\ spec.porterVersion = "" /\ "porterVersion" \in DOMAIN cfg.data
       /\ pass[w].porterVersion = cfg.data["porterVersion"]
       /\ spec.serviceAccount = "" /\ cfg.found /\ "serviceAccount" \notin DOMAIN cfg.data
       /\ pass[w].serviceAccount = ""

NoOverride(spec) ==
  spec.outputsVolumeSize = "" /\ spec.porterVersion = "" /\ spec.serviceAccount = ""

\* no read of the ConfigMap in pass p returned it: it was absent or the read failed
ConfigNeverRead(p) == \A i \in OpsOf(p, "Get", "ConfigMap") : p.ops[i].res # "ok"

\* every operation of pass p other than its reads of the ConfigMap succeeded
CleanButConfig(p) ==
  \A i \in DOMAIN p.ops :
    \/ p.ops[i].kind = "ConfigMap"
    \/ p.ops[i].res = "ok"
    \/ (p.ops[i].verb = "Get" /\ p.ops[i].res = "NotFound")

\* C14: in a pass for an Installation without overrides whose reads of the ConfigMap
\* are all answered not-found or with an error, the three settings are "128Mi",
\* "latest" and the empty service account, and the pass returns an error only if
\* another operation failed.
C14_MissingDefaults ==
  \A w \in Workers : \A p \in {pass[w], prev[w]} :
    (p.inst.found /\ NoOverride(p.inst.spec) /\ ConfigNeverRead(p))
      => /\ p.outputsVolumeSize = "128Mi"
         /\ p.porterVersion = "latest"
         /\ p.serviceAccount = ""
         /\ (Returned(p) /\ CleanButConfig(p)) => p.err = NilErr

\* a pass read the ConfigMap three times, in vain, once with an error, and created
\* its job from the hard-coded defaults
C14_Witness ==
  \E w \in Workers :
    /\ Returned(pass[w]) /\ pass[w].err = NilErr
    /\ NoOverride(pass[w].inst.spec) /\ ConfigNeverRead(pass[w])
    /\ Cardinality(OpsOf(pass[w], "Get", "ConfigMap")) = 3
    /\ \E i \in OpsOf(pass[w], "Get", "ConfigMap") : pass[w].ops[i].res \in FaultKinds
    /\ \E j \in jobs :
         /\ j.name = Identity(pass[w])
         /\ j.image = "ghcr.io/getporter/porter:kubernetes-latest"
         /\ j.serviceAccount = ""
    /\ \E v \in pvcs : v.name = Identity(pass[w]) /\ v.storage = 134217728

\* the executor versions a pass can resolve in this model
Versions == {"latest", "canary", "v0.9.0", "v1.2.3"}

\* C15: every stored job runs the image of one resolved version and its pull policy
\* is "Always" if that version is "latest" or "canary" and "IfNotPresent" otherwise.
C15_PullPolicy ==
  \A j \in jobs :
    \E version \in Versions :
      /\ j.image = "ghcr.io/getporter/porter:kubernetes-" \o version
      /\ j.pullPolicy = IF version \in {"latest", "canary"} THEN "Always" ELSE "IfNotPresent"

\* a job whose version "canary" was defaulted from the ConfigMap pulls always
C15_Witness ==
  \E w \in Workers : \E j \in jobs :
    /\ CreatedOwn(pass[w], "Job") /\ j.name = Identity(pass[w])
    /\ pass[w].inst.spec.porterVersion = ""
    /\ cfgs[j.ns].found /\ "porterVersion" \in DOMAIN cfgs[j.ns].data
    /\ cfgs[j.ns].data["porterVersion"] = "canary"
    /\ j.image = "ghcr.io/getporter/porter:kubernetes-canary"
    /\ j.pullPolicy = "Always"

\* ------------------------------------------------------------------ the job of a pass
\* the passes the model remembers: the current and the previous one of each worker
Passes == {pass[w] : w \in Workers} \cup {prev[w] : w \in Workers}

\* the stored job named by the identity of pass p
JobOf(p) == CHOOSE j \in jobs : j.ns = p.req.ns /\ j.name = Identity(p)

\* the number of arguments the action takes at the head of the vector
ActionPart(action) == IF action \in {"install", "upgrade", "uninstall"} THEN 1 ELSE 2

\* C16: the argument vector of the job a pass created begins with the action when the
\* action is install, upgrade or uninstall, and with "invoke", "--action=<action>" for
\* every other action; the argument after that is the name of the Installation.
C16_ActionDispatch ==
  \A p \in Passes :
    CreatedOwn(p, "Job") =>
      LET args == JobOf(p).args
          action == p.inst.spec.action
      IN IF action \in {"install", "upgrade", "uninstall"}
           THEN /\ Len(args) >= 2
                /\ args[1] = action
                /\ args[2] = p.inst.name
           ELSE /\ Len(args) >= 3
                /\ args[1] = "invoke"
                /\ args[2] = "--action=" \o action
                /\ args[3] = p.inst.name

\* the job of an Installation whose action is a core verb other than install exists
C16_Witness ==
  \E p \in Passes :
    /\ CreatedOwn(p, "Job")
    /\ p.inst.spec.action = "upgrade"
    /\ JobOf(p).args[1] = "upgrade"

\* C17: after the action part and the Installation name the argument vector of a
\* created job holds "--reference=<reference>", "--debug", "--debug-plugins",
\* "--driver=kubernetes", then one "-c=" flag per credential set in list order, then
\* one "-p=" flag per parameter set in list order, then exactly one
\* "--param=<key>=<value>" flag per literal parameter, and nothing else.
C17_ArgsLayout ==
  \A p \in Passes :
    CreatedOwn(p, "Job") =>
      LET args == JobOf(p).args
          spec == p.inst.spec
          n == ActionPart(spec.action) + 1
          nc == Len(spec.credentialSets)
          np == Len(spec.parameterSets)
          keys == DOMAIN spec.parameters
          tail == (n + 4 + nc + np + 1) .. Len(args)
      IN /\ Len(args) = n + 4 + nc + np + Cardinality(keys)
         /\ args[n + 1] = "--reference=" \o spec.reference
         /\ args[n + 2] = "--debug"
         /\ args[n + 3] = "--debug-plugins"
         /\ args[n + 4] = "--driver=kubernetes"
         /\ \A i \in 1..nc : args[n + 4 + i] = "-c=" \o spec.credentialSets[i]
         /\ \A i \in 1..np : args[n + 4 + nc + i] = "-p=" \o spec.parameterSets[i]
         /\ \A k \in keys :
              Cardinality({i \in tail : args[i] = "--param=" \o k \o "=" \o spec.parameters[k]}) = 1

\* a job with two credential sets, a parameter set and two literal parameters exists
C17_Witness ==
  \E p \in Passes :
    /\ CreatedOwn(p, "Job")
    /\ Len(p.inst.spec.credentialSets) = 2
    /\ Len(p.inst.spec.parameterSets) = 1
    /\ Cardinality(DOMAIN p.inst.spec.parameters) = 2
    /\ Len(JobOf(p).args) = 12

\* the labels carry the marker and the name of the Installation
Discoverable(labels, name) ==
  /\ {"porter", "installation"} \subseteq DOMAIN labels
  /\ labels["porter"] = "true"
  /\ labels["installation"] = name

\* C18: every volume and every job Reconcile created carries the label porter=true
\* and the label installation=<name of the Installation the pass loaded>.
C18_DiscoveryLabels ==
  /\ \A v \in pvcs : \E name \in Names : Discoverable(v.labels, name)
  /\ \A j \in jobs : \E name \in Names : Discoverable(j.labels, name)
  /\ \A p \in Passes :
       /\ CreatedOwn(p, "PersistentVolumeClaim") =>
            \E v \in pvcs : /\ v.ns = p.req.ns /\ v.name = Identity(p)
                            /\ Discoverable(v.labels, p.inst.name)
       /\ CreatedOwn(p, "Job") => Discoverable(JobOf(p).labels, p.inst.name)

\* a volume stands alone after a crashed pass, next to a volume with its job
C18_Witness ==
  /\ Cardinality(pvcs) = 2
  /\ Cardinality(jobs) = 1
  /\ \E p \in Passes : CreatedOwn(p, "Job") /\ JobOf(p).labels["installation"] = "wordpress"

\* the parameter keys of the model in lexicographic order
SortedKeys == <<"a", "b">>

\* the "--param" flags of the parameters in the order of their keys
SortedParamFlags(parameters) ==
  LET keys == SelectSeq(SortedKeys, LAMBDA k : k \in DOMAIN parameters)
  IN [i \in DOMAIN keys |-> "--param=" \o keys[i] \o "=" \o parameters[keys[i]]]

\* passes p and q loaded the same Installation content and resolved the same settings
SameInputs(p, q) ==
  /\ p.inst.name = q.inst.name /\ p.inst.spec = q.inst.spec
  /\ p.porterVersion = q.porterVersion /\ p.serviceAccount = q.serviceAccount
  /\ p.outputsVolumeSize = q.outputsVolumeSize

\* C19: two passes that loaded the same Installation content and resolved the same
\* namespace defaults gave their jobs the same argument vector, and the "--param"
\* flags of every created job stand in the order of their keys.
C19_Deterministic ==
  /\ \A p, q \in Passes :
       (CreatedOwn(p, "Job") /\ CreatedOwn(q, "Job") /\ SameInputs(p, q))
         => JobOf(p).args = JobOf(q).args
  /\ \A p \in Passes :
       CreatedOwn(p, "Job") =>
         LET args == JobOf(p).args
             flags == SortedParamFlags(p.inst.spec.parameters)
         IN /\ Len(args) >= Len(flags)
            /\ SubSeq(args, Len(args) - Len(flags) + 1, Len(args)) = flags

\* C20: every stored job has a volume of its name in its namespace that was created
\* before it, and the pod template of the job claims the volume by the job's name.
C20_JobHasEarlierVolume ==
  \A j \in jobs :
    /\ j.claimName = j.name
    /\ \E v \in pvcs : v.ns = j.ns /\ v.name = j.name /\ v.uid < j.uid

\* a job stands next to the volume of a pass that failed or died before its job
C20_Witness ==
  /\ jobs # {}
  /\ \E v \in pvcs : ~Exists(jobs, v.ns, v.name)
  /\ faults + crashes > 0

\* the step is taken by a Reconcile pass: a worker moved on
PassStep == pc' # pc \/ pass' # pass

\* C21: a step of a Reconcile pass leaves every Installation and every ConfigMap as it
\* is and leaves every stored volume and job as it is; it adds at most one volume or
\* one job, and the cluster operations of a pass are reads, the create of a
\* volume and the create of a job only.
C21_State ==
  \A p \in Passes : \A i \in DOMAIN p.ops :
    \/ p.ops[i].verb = "Get"
    \/ p.ops[i].verb = "Create" /\ p.ops[i].kind \in {"PersistentVolumeClaim", "Job"}

C21_Frame ==
  PassStep =>
    /\ insts' = insts /\ cfgs' = cfgs
    /\ pvcs \subseteq pvcs' /\ jobs \subseteq jobs'
    /\ Cardinality(pvcs' \ pvcs) + Cardinality(jobs' \ jobs) <= 1

C21_OnlyCreates == []C21_State /\ [][C21_Frame]_vars

\* a pass asked for the create of a volume that was already stored, and failed
C21_Witness ==
  \E p \in Passes : \E i \in OpsOf(p, "Create", "PersistentVolumeClaim") :
    /\ p.ops[i].res = "AlreadyExists"
    /\ Returned(p) /\ p.err # NilErr
    /\ Exists(pvcs, p.ops[i].ns, p.ops[i].name)

\* the cluster operations one pass can issue: the load, the job query, three reads of
\* the ConfigMap and two creates
MaxOps == 7

\* operation i of pass p returned an error the pass acts on
Failed(p, i) ==
  /\ p.ops[i].kind # "ConfigMap"
  /\ p.ops[i].res # "ok"
  /\ ~(p.ops[i].kind = "Job" /\ p.ops[i].verb = "Get" /\ p.ops[i].res = "NotFound")

\* worker w is inside a pass
Running(w) == pc[w] \notin {"idle", "done"}

\* C22 (state part): a pass issues at most MaxOps cluster operations, among them at
\* most one create of the volume and at most one create of the job, and issues
\* nothing after an operation that failed.
C22_State ==
  \A p \in Passes :
    /\ Len(p.ops) <= MaxOps
    /\ Cardinality(OpsOf(p, "Create", "PersistentVolumeClaim")) <= 1
    /\ Cardinality(OpsOf(p, "Create", "Job")) <= 1
    /\ \A i \in DOMAIN p.ops : Failed(p, i) => i = Len(p.ops)

\* the scheduler lets every started pass take its steps
SpecFair == Init /\ [][Next]_vars /\ \A w \in Workers : WF_vars(Step(w))

\* C22: every pass issues a bounded number of cluster operations, tries each create
\* at most once whatever the cluster answers, and comes to its end.
C22_BoundedNoRetry ==
  /\ []C22_State
  /\ \A w \in Workers : Running(w) ~> ~Running(w)

\* a pass ended on a failed create of the job, tried once
C22_Witness ==
  \E w \in Workers :
    /\ pc[w] = "done" /\ Returned(pass[w])
    /\ \E i \in OpsOf(pass[w], "Create", "Job") : pass[w].ops[i].res \in FaultKinds
    /\ Len(pass[w].ops) >= 4

\* pass p reached the creation path and resolved a setting from the namespace
ReadConfig(p) == p.inst.found /\ NoOverride(p.inst.spec) /\ OpsOf(p, "Get", "ConfigMap") # {}

\* C23: when a pass without overrides resolves a setting after an earlier pass without
\* overrides has resolved its settings, the value is the one the ConfigMap holds at
\* this step (or the default when it holds none), whatever the earlier pass read.
C23_Frame ==
  \A w \in Workers :
    (NoOverride(pass[w].inst.spec) /\ \E q \in Passes : q # pass[w] /\ ReadConfig(q))
      => LET cfg == cfgs[pass[w].inst.ns]
         IN /\ Resolves(w, "getSize")
                 => pass'[w].outputsVolumeSize = Precedence("", cfg, "outputsVolumeSize", "128Mi")
            /\ Resolves(w, "getVersion")
                 => pass'[w].porterVersion = Precedence("", cfg, "porterVersion", "latest")
            /\ Resolves(w, "getSA")
                 => pass'[w].serviceAccount = Precedence("", cfg, "serviceAccount", "")

C23_NoCaching == [][C23_Frame]_vars

\* the ConfigMap was written between two passes of a worker, and the later pass
\* resolved the three settings to the new values
C23_Witness ==
  \E w \in Workers :
    /\ ReadConfig(prev[w]) /\ ReadConfig(pass[w])
    /\ Returned(prev[w]) /\ Returned(pass[w])
    /\ prev[w].porterVersion = "latest" /\ pass[w].porterVersion = "canary"
    /\ prev[w].outputsVolumeSize = "128Mi" /\ pass[w].outputsVolumeSize = "64Mi"
    /\ prev[w].serviceAccount = "" /\ pass[w].serviceAccount = "porter-agent"

\* the context of the error names x
InContext(ctx, x) == \E i \in DOMAIN ctx : ctx[i] = x

\* C24: every error a pass returns names the namespace and either the job identity or
\* the Installation name with the revision; the error of a failed job query names the
\* job identity that was queried.
C24_ErrorContext ==
  \A p \in Passes :
    (Returned(p) /\ p.err # NilErr)
      => /\ InContext(p.err.ctx, p.req.ns)
         /\ \/ InContext(p.err.ctx, Identity(p))
            \/ InContext(p.err.ctx, p.req.name) /\ InContext(p.err.ctx, p.inst.resourceVersion)
         /\ p.err.wrap = "could not query for the bundle installation job"
              => InContext(p.err.ctx, Identity(p))

\* ------------------------------------------------------------------ identity runs
\* names of Installations of one namespace, one a prefix of the others, with the
\* characters a name can hold besides letters: a digit and the separator
IdentityNames == {"a", "a1", "a-1"}

\* resourceVersions as the store hands them out: decimal numerals
Tokens == {"1", "2", "12"}

IdentityKeys == [ns : Namespaces, name : IdentityNames]

\* every Installation of IdentityNames exists, each at one of the Tokens
InitIdentity ==
  /\ \E token \in [IdentityKeys -> Tokens] :
       insts = [k \in IdentityKeys |->
                 [found |-> TRUE, ns |-> k.ns, name |-> k.name,
                  resourceVersion |-> token[k], spec |-> PlainSpec]]
  /\ cfgs = [n \in Namespaces |-> [found |-> FALSE, data |-> EmptyData]]
  /\ pvcs = {}
  /\ jobs = {}
  /\ created = {}
  /\ rv = 0
  /\ uid = 0
  /\ faults = 0
  /\ cfgWrites = 0
  /\ crashes = 0
  /\ pc = [w \in Workers |-> "idle"]
  /\ pass = [w \in Workers |-> FreshPass]
  /\ prev = [w \in Workers |-> FreshPass]
  /\ npass = 0

NextIdentity ==
  \/ \E w \in Workers, k \in IdentityKeys : Trigger(w, k)
  \/ \E w \in Workers : Step(w)

SpecIdentity == InitIdentity /\ [][NextIdentity]_vars

\* C25: within a namespace two distinct pairs of Installation name and revision token
\* derive distinct job names, and the job a pass finds is the job that was created for
\* the Installation of the pass (whose revision does not change in these runs).
C25_Injective ==
  /\ \A n1, n2 \in IdentityNames : \A t1, t2 \in Tokens :
       JobName(n1, t1) = JobName(n2, t2) => n1 = n2 /\ t1 = t2
  /\ \A p \in Passes : (p.inst.found /\ p.jobName # "") => p.jobName = Identity(p)
  /\ \A p \in Passes :
       JobFound(p)
         => \E j \in jobs :
              /\ j.ns = p.req.ns /\ j.name = p.jobName
              /\ j.labels["installation"] = p.req.name
              /\ insts[p.req].resourceVersion = p.inst.resourceVersion

\* two Installations whose names and tokens run together to the same characters
\* each got a job of their own
C25_Witness ==
  \E p, q \in Passes :
    /\ CreatedOwn(p, "Job") /\ CreatedOwn(q, "Job")
    /\ p.req # q.req
    /\ p.req.name \o p.inst.resourceVersion = q.req.name \o q.inst.resourceVersion
    /\ Cardinality(jobs) = 2

\* ------------------------------------------------------------------ two namespaces
TenantNamespaces == {"test", "other"}

TenantKeys == [ns : TenantNamespaces, name : Names]

\* what the ConfigMap "porter" of a namespace can be
TenantConfigs ==
  { [found |-> FALSE, data |-> EmptyData],
    [found |-> TRUE,
     data |-> ("porterVersion" :> "canary" @@ "serviceAccount" :> "porter-agent"
                 @@ "outputsVolumeSize" :> "64Mi")],
    [found |-> TRUE,
     data |-> ("porterVersion" :> "v0.9.0" @@ "serviceAccount" :> "installer"
                 @@ "outputsVolumeSize" :> "256Mi")] }

\* an Installation of the same name and revision in each namespace, each namespace
\* with a ConfigMap of its own
InitTenants ==
  /\ insts = [k \in TenantKeys |->
               [found |-> TRUE, ns |-> k.ns, name |-> k.name,
                resourceVersion |-> "1", spec |-> PlainSpec]]
  /\ cfgs \in [TenantNamespaces -> TenantConfigs]
  /\ pvcs = {}
  /\ jobs = {}
  /\ created = {}
  /\ rv = 1
  /\ uid = 0
  /\ faults = 0
  /\ cfgWrites = 0
  /\ crashes = 0
  /\ pc = [w \in Workers |-> "idle"]
  /\ pass = [w \in Workers |-> FreshPass]
  /\ prev = [w \in Workers |-> FreshPass]
  /\ npass = 0

NextTenants ==
  \/ \E w \in Workers, k \in TenantKeys : Trigger(w, k)
  \/ \E w \in Workers : Step(w)

SpecTenants == InitTenants /\ [][NextTenants]_vars

\* the objects of objs outside namespace ns
Outside(objs, ns) == {o \in objs : o.ns # ns}

\* C26 (state part): every cluster operation of a pass names the namespace of its
\* request, and a pass takes the job-found path only if the job is stored in that
\* namespace.
C26_State ==
  \A p \in Passes :
    /\ \A i \in DOMAIN p.ops : p.ops[i].ns = p.req.ns
    /\ JobFound(p) => \E j \in jobs : j.ns = p.req.ns /\ j.name = Identity(p)

\* C26 (step part): a step of the pass of worker w leaves the volumes and jobs of
\* every other namespace and every ConfigMap as they are, creates only in the
\* namespace of the request, and resolves a setting from the ConfigMap of that
\* namespace alone.
C26_Frame ==
  \A w \in Workers :
    (pass'[w] # pass[w] /\ pc[w] \notin {"idle", "done"})
      => LET ns == pass[w].req.ns
             spec == pass[w].inst.spec
         IN /\ Outside(pvcs', ns) = Outside(pvcs, ns)
            /\ Outside(jobs', ns) = Outside(jobs, ns)
            /\ cfgs' = cfgs
            /\ Resolves(w, "getSize")
                 => pass'[w].outputsVolumeSize =
                      Precedence(spec.outputsVolumeSize, cfgs[ns], "outputsVolumeSize", "128Mi")
            /\ Resolves(w, "getVersion")
                 => pass'[w].porterVersion =
                      Precedence(spec.porterVersion, cfgs[ns], "porterVersion", "latest")
            /\ Resolves(w, "getSA")
                 => pass'[w].serviceAccount =
                      Precedence(spec.serviceAccount, cfgs[ns], "serviceAccount", "")

\* C26: a pass for an Installation of one namespace reads, queries and creates in that
\* namespace only; the objects and the ConfigMap of another namespace are neither read
\* nor changed and do not bear on what the pass does.
C26_NamespaceIsolation == []C26_State /\ [][C26_Frame]_vars

\* the Installations of the two namespaces, equal in name and revision, each got a job
\* of the same name, resolved from ConfigMaps that differ
C26_Witness ==
  \E j1, j2 \in jobs :
    /\ j1.name = j2.name /\ j1.ns = "test" /\ j2.ns = "other"
    /\ j1.image # j2.image
    /\ j1.serviceAccount # j2.serviceAccount
    /\ \E v1, v2 \in pvcs : v1.ns = "test" /\ v2.ns = "other" /\ v1.storage # v2.storage

\* C27: when a pass that loaded its Installation has returned without error, a job
\* named <name>-<revision the pass read> is stored in the namespace of the request.
C27_SuccessMeansJob ==
  \A p \in Passes :
    (Returned(p) /\ p.err = NilErr /\ p.inst.found)
      => \E j \in jobs : j.ns = p.req.ns /\ j.name = Identity(p)

\* a pass returned without error after its Create of the job, following a pass for the
\* same revision that failed
C27_Witness ==
  \E w \in Workers :
    /\ Returned(pass[w]) /\ pass[w].err = NilErr /\ pass[w].inst.found
    /\ CreatedOwn(pass[w], "Job")
    /\ Returned(prev[w]) /\ prev[w].err # NilErr
    /\ Identity(prev[w]) = Identity(pass[w])

====
